---- MODULE Spec2Model ----
(***************************************************************************)
(* Model of testuid.cpp: Record, Database (a vector<Record> plus an        *)
(* unordered_map<string, Record*> of raw pointers into it), UidGenerator,  *)
(* runPerformanceTest, demonstration and main.                             *)
(*                                                                         *)
(* A Record* is modelled as [buf, off]: the allocation (buffer) of the     *)
(* vector it points into and the 1-based position inside it.  push_back    *)
(* on a full vector allocates a new buffer, moves the elements and frees   *)
(* the old one, so every pointer into the old buffer dangles.  Reading     *)
(* through a dangling pointer is undefined behaviour and is modelled as a  *)
(* nondeterministic choice among the outcomes a build can show.            *)
(***************************************************************************)
EXTENDS Integers, Sequences, FiniteSets, Bags, TLC

VARIABLES
    index, records, capacity, buf,          \* Database (and the vector's buffer)
    op, ret, retKey, got,                   \* the caller of the Database
    lastAdd, addCount, prior,               \* history of the calls
    argUid, argData, made,                  \* a Record construction
    pc, N, M, i, uid,                       \* runPerformanceTest / main control
    usedUids, existingUids, searchKeys,
    foundCount, notFoundCount,
    existingSlots, freshHits,               \* history of the workload
    collided,                               \* a generated identifier was rejected
    exitStatus, cerr, done                  \* process result, phases completed

dbVars    == <<index, records, capacity, buf>>
callVars  == <<op, ret, retKey, got, lastAdd, addCount, prior>>
recVars   == <<argUid, argData, made>>
benchVars == <<pc, N, M, i, uid, usedUids, existingUids, searchKeys,
               foundCount, notFoundCount, existingSlots, freshHits, collided>>
mainVars  == <<exitStatus, cerr, done>>
vars      == <<dbVars, callVars, recVars, benchVars, mainVars>>

(***************************************************************************)
(* Bounds                                                                  *)
(***************************************************************************)
MaxRecords  == 3    \* records held by a Database under arbitrary calls
NumKeys     == 2    \* distinct identifiers of the arbitrary calls
NumUids     == 2    \* distinct identifiers the generator can draw
NumPayloads == 2    \* distinct payloads of the arbitrary calls
MaxUidLen   == 8    \* longest identifier handed to the Record constructor
NumBytes    == 2    \* distinct byte values in those identifiers
MaxN        == 2    \* TOTAL_RECORDS of the benchmark
MaxM        == 4    \* SEARCH_TESTS of the benchmark

(***************************************************************************)
(* Record                                                                  *)
(***************************************************************************)
UID_LEN == 7

Max(a, b) == IF a >= b THEN a ELSE b

\* Record::Record: the members are copied, then the length is checked.
RecordBadLength(u, d) ==
    IF Len(u) < UID_LEN
       THEN [ok |-> FALSE, error |-> "invalid_argument"]
       ELSE [ok |-> TRUE, rec |-> [uid |-> u, data |-> d]]

Record(u, d) ==
    IF Len(u) # UID_LEN
       THEN [ok |-> FALSE, error |-> "invalid_argument"]
       ELSE [ok |-> TRUE, rec |-> [uid |-> u, data |-> d]]

getUid(r)  == r.uid
getData(r) == r.data

\* UidGenerator::generateUid: seven bytes appended one by one.  The model
\* lets the last draw range over NumUids values and fixes the others.
RECURSIVE generateFrom(_, _)
generateFrom(u, last) ==
    IF Len(u) = UID_LEN THEN u
    ELSE generateFrom(Append(u, IF Len(u) = UID_LEN - 1 THEN last ELSE 0), last)

generateUid == {generateFrom(<<>>, b) : b \in 0..(NumUids - 1)}

\* Identifiers of the arbitrary calls on a Database.
Keys == {generateFrom(<<>>, b) : b \in 0..(NumKeys - 1)}

Payloads == 1..NumPayloads

(***************************************************************************)
(* Database                                                                *)
(***************************************************************************)
NULL == [buf |-> 0, off |-> 0]

EmptyIndex == [k \in {} |-> NULL]

\* The pointer designates an element of the vector as it is now.
Live(p) == p.buf = buf /\ p.off >= 1 /\ p.off <= Len(records)

\* Growth of a full vector: the factor is the library's (2 or 1.5).
NewCapacities(cap) == {Max(1, 2 * cap), Max(cap + 1, cap + (cap \div 2))}

\* vector::push_back
push_back(record) ==
    /\ IF Len(records) = capacity
          THEN /\ \E c \in NewCapacities(capacity) : capacity' = c
               /\ buf' = buf + 1
          ELSE UNCHANGED <<capacity, buf>>
    /\ records' = Append(records, record)

\* Database::addRecord, keeping an existing entry (as map::insert would).
addRecordKeepFirst(record) ==
    /\ push_back(record)
    /\ index' = IF getUid(record) \in DOMAIN index
                   THEN index
                   ELSE [k \in DOMAIN index \cup {getUid(record)} |->
                            IF k = getUid(record)
                               THEN [buf |-> buf', off |-> Len(records')]
                               ELSE index[k]]

\* Database::addRecord
addRecord(record) ==
    /\ push_back(record)
    /\ index' = [k \in DOMAIN index \cup {getUid(record)} |->
                    IF k = getUid(record)
                       THEN [buf |-> buf', off |-> Len(records')]
                       ELSE index[k]]

\* Database::findRecord
findRecord(u) == IF u \in DOMAIN index THEN index[u] ELSE NULL

\* Database::size
size == Len(records)

\* Database::clear forgetting the index.
clearRecordsOnly ==
    /\ records' = <<>>
    /\ UNCHANGED <<index, capacity, buf>>

\* Database::clear: vector::clear keeps the buffer and its capacity.
clear ==
    /\ records' = <<>>
    /\ index' = EmptyIndex
    /\ UNCHANGED <<capacity, buf>>

\* A default-constructed Database.
NewDatabase ==
    /\ index = EmptyIndex
    /\ records = <<>>
    /\ capacity = 0
    /\ buf = 0

(***************************************************************************)
(* What a read through a Record* yields                                    *)
(***************************************************************************)
MovedFrom == [uid |-> <<>>, data |-> 0]
RecordValues == {[uid |-> u, data |-> d] : u \in generateUid, d \in Payloads}

Read(r) == [st |-> "read", rec |-> r]
CRASH == [st |-> "crash", rec |-> MovedFrom]
NothingRead == [st |-> "none", rec |-> MovedFrom]

\* Outcomes of reading a Record through a dangling pointer: stale or
\* foreign contents, a moved-from husk, or abnormal termination.
DanglingOutcomes == {Read(r) : r \in RecordValues \cup {MovedFrom}} \cup {CRASH}

Deref(p) == IF Live(p) THEN {Read(records[p.off])} ELSE DanglingOutcomes

(***************************************************************************)
(* Arbitrary calls on one Database                                         *)
(***************************************************************************)
NoCall == "none"
Running == -1
NoKey == <<>>
NotMade == [ok |-> FALSE, error |-> "not constructed"]

recIdle   == argUid = <<>> /\ argData = 0 /\ made = NotMade
benchIdle ==
    /\ pc = "idle" /\ N = 0 /\ M = 0 /\ i = 0 /\ uid = <<>>
    /\ usedUids = [k \in {} |-> TRUE]
    /\ existingUids = <<>> /\ searchKeys = <<>>
    /\ foundCount = 0 /\ notFoundCount = 0
    /\ existingSlots = 0 /\ freshHits = 0
    /\ collided = FALSE
mainIdle  == exitStatus = Running /\ cerr = <<>> /\ done = {}
callIdle  ==
    /\ op = NoCall /\ ret = NULL /\ retKey = NoKey /\ got = NothingRead
    /\ lastAdd = [k \in {} |-> 0] /\ addCount = 0 /\ prior = {}

Init == NewDatabase /\ callIdle /\ recIdle /\ benchIdle /\ mainIdle

\* db.addRecord(Record(u, d)) with a well-formed identifier.
CallAddRecord ==
    /\ got # CRASH
    /\ Len(records) < MaxRecords
    /\ \E u \in generateUid, d \in Payloads :
          /\ Record(u, d).ok
          /\ addRecord(Record(u, d).rec)
          /\ lastAdd' = [k \in DOMAIN lastAdd \cup {u} |->
                            IF k = u THEN d ELSE lastAdd[k]]
    /\ addCount' = addCount + 1
    /\ op' = "addRecord"
    /\ ret' = NULL /\ retKey' = NoKey /\ got' = NothingRead /\ prior' = {}
    /\ UNCHANGED <<recVars, benchVars, mainVars>>

\* findRecord through operator[], which would create the entry.
CallFindRecordBracket ==
    /\ got # CRASH
    /\ \E u \in generateUid :
          /\ ret' = findRecord(u)
          /\ retKey' = u
          /\ index' = [k \in DOMAIN index \cup {u} |->
                          IF k \in DOMAIN index THEN index[k] ELSE NULL]
    /\ op' = "findRecord"
    /\ got' = NothingRead /\ prior' = {}
    /\ UNCHANGED <<records, capacity, buf, lastAdd, addCount>>
    /\ UNCHANGED <<recVars, benchVars, mainVars>>

\* Record* r = db.findRecord(u)
CallFindRecord ==
    /\ got # CRASH
    /\ \E u \in generateUid :
          /\ ret' = findRecord(u)
          /\ retKey' = u
    /\ op' = "findRecord"
    /\ got' = NothingRead /\ prior' = {}
    /\ UNCHANGED <<dbVars, lastAdd, addCount>>
    /\ UNCHANGED <<recVars, benchVars, mainVars>>

\* r->getUid(), r->getData() on the pointer findRecord returned.
CallGet ==
    /\ op = "findRecord"
    /\ ret # NULL
    /\ \E v \in Deref(ret) : got' = v
    /\ op' = "get"
    /\ UNCHANGED <<dbVars, ret, retKey, lastAdd, addCount, prior>>
    /\ UNCHANGED <<recVars, benchVars, mainVars>>

\* db.clear()
CallClear ==
    /\ got # CRASH
    /\ prior' = DOMAIN lastAdd
    /\ clear
    /\ lastAdd' = [k \in {} |-> 0]
    /\ addCount' = 0
    /\ op' = "clear"
    /\ ret' = NULL /\ retKey' = NoKey /\ got' = NothingRead
    /\ UNCHANGED <<recVars, benchVars, mainVars>>

Next == CallAddRecord \/ CallFindRecord \/ CallGet \/ CallClear

Spec == Init /\ [][Next]_vars

(***************************************************************************)
(* Claims about the Database                                               *)
(***************************************************************************)
Added == DOMAIN lastAdd

DuplicateInserted ==
    \E j \in 1..Len(records), k \in 1..Len(records) :
        j < k /\ records[j].uid = records[k].uid

\* C1: after addRecord of (K, P), every findRecord(K) before the next
\* clear() returns a pointer to that record, through which K and P are
\* read, however many other records were inserted in between.
C1_LookupReturnsInserted ==
    /\ (op = "findRecord" /\ retKey \in Added) =>
           /\ ret # NULL
           /\ Live(ret)
           /\ records[ret.off] = [uid |-> retKey, data |-> lastAdd[retKey]]
    /\ (op = "get" /\ retKey \in Added) =>
           got = Read([uid |-> retKey, data |-> lastAdd[retKey]])

\* C2: every key of the index refers to a live element of records whose
\* identifier is the key.
C2_IndexRefersToLiveRecord ==
    \A k \in DOMAIN index :
        /\ Live(index[k])
        /\ records[index[k].off].uid = k

\* C3: findRecord(K) returns null for every K not inserted since the last
\* clear(), and a findRecord call changes neither the index nor records.
C3_MissReturnsNullAndLookupIsPure ==
    [][ /\ \A u \in generateUid \ Added : findRecord(u) = NULL
        /\ op' = "findRecord" =>
              /\ index' = index
              /\ records' = records
              /\ (retKey' \notin Added => ret' = NULL) ]_vars

C3_Witness ==
    /\ op = "findRecord"
    /\ retKey \notin Added
    /\ ret = NULL
    /\ Len(records) >= 2

\* C4: after clear(), size() is 0, records and index are empty and
\* findRecord(K) is null for every K inserted before the clear.
C4_ClearEmptiesStore ==
    op = "clear" =>
        /\ size = 0
        /\ records = <<>>
        /\ DOMAIN index = {}
        /\ \A k \in prior : findRecord(k) = NULL

C4_Witness ==
    /\ op = "clear"
    /\ Cardinality(prior) >= 2
    /\ size = 0

\* C8: addRecord of an identifier already present overwrites its index
\* entry, so that findRecord returns the record just inserted; the older
\* record stays in records, referenced by no index entry; size() is the
\* number of addRecord calls since the last clear(), at least the number
\* of keys, and equal to it exactly when no identifier was inserted twice.
C8_DuplicateOverwritesAndSizeCounts ==
    /\ size = addCount
    /\ size >= Cardinality(DOMAIN index)
    /\ (size = Cardinality(DOMAIN index)) <=> ~DuplicateInserted
    /\ op = "addRecord" =>
           LET r == records[Len(records)]
               p == findRecord(getUid(r))
           IN /\ Live(p)
              /\ p.off = Len(records)
              /\ getData(records[p.off]) = lastAdd[getUid(r)]
    /\ \A j \in 1..Len(records) :
           (\E k \in (j + 1)..Len(records) : records[k].uid = records[j].uid)
              => ~\E u \in DOMAIN index : Live(index[u]) /\ index[u].off = j

C8_Witness ==
    /\ op = "addRecord"
    /\ DuplicateInserted
    /\ size > Cardinality(DOMAIN index)
    /\ getData(records[findRecord(getUid(records[size])).off])
          # getData(records[1])
    /\ getUid(records[size]) = getUid(records[1])

(***************************************************************************)
(* Record construction on arbitrary identifiers                            *)
(***************************************************************************)
Bytes == 0..(NumBytes - 1)
ByteStrings == UNION {[1..n -> Bytes] : n \in 0..MaxUidLen}

InitRecord ==
    /\ NewDatabase /\ callIdle /\ benchIdle /\ mainIdle
    /\ argUid \in ByteStrings
    /\ argData \in Payloads
    /\ made = NotMade

\* Record r(argUid, argData), or the exception it throws.
Construct ==
    /\ made = NotMade
    /\ made' = Record(argUid, argData)
    /\ UNCHANGED <<argUid, argData, dbVars, callVars, benchVars, mainVars>>

NextRecord == Construct

SpecRecord == InitRecord /\ [][NextRecord]_vars

\* C5: construction fails with the invalid-length error for every
\* identifier whose length is not 7, producing no Record; for length 7 it
\* succeeds and getUid()/getData() return identifier and payload unchanged.
C5_LengthChecked ==
    made # NotMade =>
        IF Len(argUid) = 7
           THEN /\ made.ok
                /\ getUid(made.rec) = argUid
                /\ getData(made.rec) = argData
           ELSE /\ ~made.ok
                /\ made.error = "invalid_argument"
                /\ "rec" \notin DOMAIN made

C5_Witness ==
    /\ made # NotMade
    /\ Len(argUid) = 8
    /\ ~made.ok

(***************************************************************************)
(* runPerformanceTest                                                      *)
(***************************************************************************)
Range(q) == {q[j] : j \in DOMAIN q}

\* The orders in which a sequence can be rearranged (std::shuffle), and in
\* which a set can be enumerated (iteration over an unordered_map).
Rearrangements(q) ==
    {[j \in 1..Len(q) |-> q[f[j]]] : f \in Permutations(1..Len(q))}

Enumerations(S) ==
    {q \in [1..Cardinality(S) -> S] : Range(q) = S}

\* main's handler: catch (const exception& e) { cerr << ...; return 1; }
MainCatch(e) ==
    /\ cerr' = Append(cerr, e)
    /\ exitStatus' = 1
    /\ pc' = "exited"

\* Entry: Database db; UidGenerator uidGen; usedUids; first loop test.
BenchEnter ==
    /\ pc = "bench_entry"
    /\ index' = EmptyIndex /\ records' = <<>> /\ capacity' = 0 /\ buf' = 0
    /\ usedUids' = [k \in {} |-> TRUE]
    /\ i' = 0
    /\ pc' = IF 0 < N THEN "gen_do" ELSE "collect"
    /\ UNCHANGED <<N, M, uid, existingUids, searchKeys, foundCount,
                   notFoundCount, existingSlots, freshHits, collided>>
    /\ UNCHANGED <<callVars, recVars, mainVars>>

\* The do-while without its test: the first draw is taken.
GenerateAny ==
    /\ pc = "gen_do"
    /\ \E u \in generateUid :
          /\ uid' = u
          /\ collided' = (collided \/ u \in DOMAIN usedUids)
          /\ pc' = "gen_insert"
    /\ UNCHANGED <<N, M, i, usedUids, existingUids, searchKeys, foundCount,
                   notFoundCount, existingSlots, freshHits>>
    /\ UNCHANGED <<dbVars, callVars, recVars, mainVars>>

\* do { uid = uidGen.generateUid(); } while (usedUids.count(uid) > 0);
\* one iteration.
GenerateUnique ==
    /\ pc = "gen_do"
    /\ \E u \in generateUid :
          /\ uid' = u
          /\ IF u \in DOMAIN usedUids
                THEN collided' = TRUE /\ pc' = "gen_do"
                ELSE collided' = collided /\ pc' = "gen_insert"
    /\ UNCHANGED <<N, M, i, usedUids, existingUids, searchKeys, foundCount,
                   notFoundCount, existingSlots, freshHits>>
    /\ UNCHANGED <<dbVars, callVars, recVars, mainVars>>

\* usedUids[uid] = true; db.addRecord(Record(uid, data)); uid, local to
\* the loop body, ends; ++i and the test.
\* The payload "... " + to_string(i + 1) is modelled by the number i + 1.
InsertGenerated ==
    /\ pc = "gen_insert"
    /\ usedUids' = [k \in DOMAIN usedUids \cup {uid} |-> TRUE]
    /\ LET r == Record(uid, i + 1)
       IN IF r.ok
             THEN /\ addRecord(r.rec)
                  /\ i' = i + 1
                  /\ pc' = IF i + 1 < N THEN "gen_do" ELSE "collect"
                  /\ UNCHANGED <<exitStatus, cerr>>
             ELSE /\ MainCatch(r.error)
                  /\ UNCHANGED <<dbVars, i>>
    /\ uid' = <<>>
    /\ UNCHANGED <<N, M, existingUids, searchKeys, foundCount,
                   notFoundCount, existingSlots, freshHits, collided>>
    /\ UNCHANGED <<callVars, recVars, done>>

\* for (const auto& pair : usedUids) existingUids.push_back(pair.first);
\* then the first test of the workload loop.
CollectExisting ==
    /\ pc = "collect"
    /\ existingUids' \in Enumerations(DOMAIN usedUids)
    /\ searchKeys' = <<>>
    /\ i' = 0
    /\ pc' = IF 0 < M THEN "build" ELSE "shuffle"
    /\ UNCHANGED <<N, M, uid, usedUids, foundCount, notFoundCount,
                   existingSlots, freshHits, collided>>
    /\ UNCHANGED <<dbVars, callVars, recVars, mainVars>>

\* The workload loop with the shares exchanged (i < SEARCH_TESTS * 0.3).
BuildKeySwapped ==
    /\ pc = "build"
    /\ IF 10 * i < 3 * M
          THEN /\ \E j \in 1..Len(existingUids) :
                     searchKeys' = Append(searchKeys, existingUids[j])
               /\ existingSlots' = existingSlots + 1
               /\ UNCHANGED freshHits
          ELSE /\ \E u \in generateUid :
                     /\ searchKeys' = Append(searchKeys, u)
                     /\ freshHits' = freshHits +
                                        (IF u \in DOMAIN usedUids THEN 1 ELSE 0)
               /\ UNCHANGED existingSlots
    /\ i' = i + 1
    /\ pc' = IF i + 1 < M THEN "build" ELSE "shuffle"
    /\ UNCHANGED <<N, M, uid, usedUids, existingUids, foundCount,
                   notFoundCount, collided>>
    /\ UNCHANGED <<dbVars, callVars, recVars, mainVars>>

\* One iteration of the workload loop.  i < SEARCH_TESTS * 0.7 compares an
\* int with a double; 0.7 rounds below 7/10 and the product never exceeds
\* the exact one, so for integers the test is 10 * i < 7 * SEARCH_TESTS.
BuildKey ==
    /\ pc = "build"
    /\ IF 10 * i < 7 * M
          THEN /\ \E j \in 1..Len(existingUids) :
                     searchKeys' = Append(searchKeys, existingUids[j])
               /\ existingSlots' = existingSlots + 1
               /\ UNCHANGED freshHits
          ELSE /\ \E u \in generateUid :
                     /\ searchKeys' = Append(searchKeys, u)
                     /\ freshHits' = freshHits +
                                        (IF u \in DOMAIN usedUids THEN 1 ELSE 0)
               /\ UNCHANGED existingSlots
    /\ i' = i + 1
    /\ pc' = IF i + 1 < M THEN "build" ELSE "shuffle"
    /\ UNCHANGED <<N, M, uid, usedUids, existingUids, foundCount,
                   notFoundCount, collided>>
    /\ UNCHANGED <<dbVars, callVars, recVars, mainVars>>

\* shuffle(searchKeys.begin(), searchKeys.end(), gen); the counters are
\* declared; first test of the lookup loop.
Shuffle ==
    /\ pc = "shuffle"
    /\ searchKeys' \in Rearrangements(searchKeys)
    /\ foundCount' = 0
    /\ notFoundCount' = 0
    /\ i' = 0
    /\ pc' = IF 0 < M THEN "search" ELSE "report"
    /\ UNCHANGED <<N, M, uid, usedUids, existingUids, existingSlots,
                   freshHits, collided>>
    /\ UNCHANGED <<dbVars, callVars, recVars, mainVars>>

\* The lookup loop counting hits only.
SearchStepHitsOnly ==
    /\ pc = "search"
    /\ IF findRecord(searchKeys[i + 1]) # NULL
          THEN foundCount' = foundCount + 1
          ELSE foundCount' = foundCount
    /\ UNCHANGED notFoundCount
    /\ i' = i + 1
    /\ pc' = IF i + 1 < M THEN "search" ELSE "report"
    /\ UNCHANGED <<N, M, uid, usedUids, existingUids, searchKeys,
                   existingSlots, freshHits, collided>>
    /\ UNCHANGED <<dbVars, callVars, recVars, mainVars>>

\* One iteration of the lookup loop: the pointer is tested, never read
\* through.
SearchStep ==
    /\ pc = "search"
    /\ IF findRecord(searchKeys[i + 1]) # NULL
          THEN foundCount' = foundCount + 1 /\ UNCHANGED notFoundCount
          ELSE notFoundCount' = notFoundCount + 1 /\ UNCHANGED foundCount
    /\ i' = i + 1
    /\ pc' = IF i + 1 < M THEN "search" ELSE "report"
    /\ UNCHANGED <<N, M, uid, usedUids, existingUids, searchKeys,
                   existingSlots, freshHits, collided>>
    /\ UNCHANGED <<dbVars, callVars, recVars, mainVars>>

\* The statistics are printed and runPerformanceTest returns.
Report ==
    /\ pc = "report"
    /\ pc' = "bench_done"
    /\ done' = done \cup {"bench"}
    /\ UNCHANGED <<N, M, i, uid, usedUids, existingUids, searchKeys, foundCount,
                   notFoundCount, existingSlots, freshHits, collided>>
    /\ UNCHANGED <<dbVars, callVars, recVars, exitStatus, cerr>>

InitBench ==
    /\ NewDatabase /\ callIdle /\ recIdle /\ mainIdle
    /\ pc = "bench_entry"
    /\ N \in 1..MaxN
    /\ M \in 0..MaxM
    /\ i = 0 /\ uid = <<>>
    /\ usedUids = [k \in {} |-> TRUE]
    /\ existingUids = <<>> /\ searchKeys = <<>>
    /\ foundCount = 0 /\ notFoundCount = 0
    /\ existingSlots = 0 /\ freshHits = 0
    /\ collided = FALSE

NextBench ==
    \/ BenchEnter
    \/ GenerateUnique
    \/ InsertGenerated
    \/ CollectExisting
    \/ BuildKey
    \/ Shuffle
    \/ SearchStep
    \/ Report

SpecBench == InitBench /\ [][NextBench]_vars

(***************************************************************************)
(* Claims about runPerformanceTest                                         *)
(***************************************************************************)
SeqToBag(q) == [x \in Range(q) |-> Cardinality({j \in DOMAIN q : q[j] = x})]

\* ceil(0.7 * m) in integers
CeilSeventyPercent(m) == (7 * m + 9) \div 10

GenerationEnded ==
    pc \in {"collect", "build", "shuffle", "search", "report", "bench_done"}

\* C6: when the generation loop ends, usedUids holds exactly N distinct
\* identifiers, exactly N records were inserted, none twice, and
\* db.size() = N, whatever values generateUid returned.
C6_GenerationYieldsDistinct ==
    GenerationEnded =>
        /\ Cardinality(DOMAIN usedUids) = N
        /\ size = N
        /\ ~DuplicateInserted
        /\ {getUid(records[j]) : j \in 1..Len(records)} = DOMAIN usedUids
        /\ DOMAIN index = DOMAIN usedUids

C6_Witness ==
    /\ pc = "collect"
    /\ collided
    /\ N >= 2
    /\ size = N

\* C7: after the i-th lookup foundCount + notFoundCount = i, each lookup
\* increments exactly one of the two counters, and when the loop ends the
\* sum is M.
C7_CountsSumToLookups ==
    [][ /\ pc = "search" => foundCount + notFoundCount = i
        /\ pc' = "search" => foundCount' + notFoundCount' = i'
        /\ (pc = "search" /\ i' = i + 1) =>
              \/ foundCount' = foundCount + 1 /\ notFoundCount' = notFoundCount
              \/ foundCount' = foundCount /\ notFoundCount' = notFoundCount + 1
        /\ (pc' \in {"report", "bench_done"}) =>
              foundCount' + notFoundCount' = M ]_vars

C7_Witness ==
    /\ pc = "report"
    /\ M >= 3
    /\ foundCount >= 1
    /\ notFoundCount >= 1
    /\ foundCount + notFoundCount = M

DemoUid(k) == [j \in 1..7 |-> 64 + 7 * (k - 1) + j]
DemoRecords == [k \in 1..3 |-> [uid |-> DemoUid(k), data |-> k]]
MissingUid == [j \in 1..7 |-> 88]

\* Termination by a signal, as the shell reports SIGSEGV.
AbnormalExit == 128 + 11

\* main up to the try block, and Database db in demonstration.
DemoEnter ==
    /\ pc = "main"
    /\ index' = EmptyIndex /\ records' = <<>> /\ capacity' = 0 /\ buf' = 0
    /\ i' = 0
    /\ pc' = "demo_add"
    /\ UNCHANGED <<N, M, uid, usedUids, existingUids, searchKeys, foundCount,
                   notFoundCount, existingSlots, freshHits, collided>>
    /\ UNCHANGED <<callVars, recVars, mainVars>>

\* db.addRecord(Record("...", "...")), the three statements in turn.
DemoAdd ==
    /\ pc = "demo_add"
    /\ LET r == Record(DemoRecords[i + 1].uid, DemoRecords[i + 1].data)
       IN IF r.ok
             THEN /\ addRecord(r.rec)
                  /\ i' = i + 1
                  /\ pc' = IF i + 1 < Len(DemoRecords) THEN "demo_add"
                                                       ELSE "demo_find"
                  /\ UNCHANGED <<exitStatus, cerr>>
             ELSE /\ MainCatch(r.error)
                  /\ UNCHANGED <<dbVars, i>>
    /\ UNCHANGED <<N, M, uid, usedUids, existingUids, searchKeys, foundCount,
                   notFoundCount, existingSlots, freshHits, collided>>
    /\ UNCHANGED <<callVars, recVars, done>>

\* Record* found = db.findRecord("ABCDEFG"); if (found) the record is read
\* through the pointer and printed.
DemoFindHit ==
    /\ pc = "demo_find"
    /\ ret' = findRecord(DemoUid(1))
    /\ retKey' = DemoUid(1)
    /\ IF findRecord(DemoUid(1)) # NULL
          THEN \E v \in Deref(findRecord(DemoUid(1))) :
                  /\ got' = v
                  /\ IF v = CRASH
                        THEN exitStatus' = AbnormalExit /\ pc' = "exited"
                        ELSE UNCHANGED exitStatus /\ pc' = "demo_miss"
          ELSE UNCHANGED <<got, exitStatus>> /\ pc' = "demo_miss"
    /\ UNCHANGED <<N, M, i, uid, usedUids, existingUids, searchKeys, foundCount,
                   notFoundCount, existingSlots, freshHits, collided>>
    /\ UNCHANGED <<dbVars, op, lastAdd, addCount, prior, recVars, cerr, done>>

\* Record* notFound = db.findRecord("XXXXXXX");
DemoFindMiss ==
    /\ pc = "demo_miss"
    /\ ret' = findRecord(MissingUid)
    /\ retKey' = MissingUid
    /\ pc' = "demo_size"
    /\ UNCHANGED <<N, M, i, uid, usedUids, existingUids, searchKeys, foundCount,
                   notFoundCount, existingSlots, freshHits, collided>>
    /\ UNCHANGED <<dbVars, op, got, lastAdd, addCount, prior, recVars, mainVars>>

\* db.size() is printed and demonstration returns to main, ending its
\* locals found and notFound; main calls runPerformanceTest.
DemoReturn ==
    /\ pc = "demo_size"
    /\ done' = done \cup {"demo"}
    /\ ret' = NULL /\ retKey' = NoKey /\ got' = NothingRead
    /\ pc' = "bench_entry"
    /\ UNCHANGED <<N, M, i, uid, usedUids, existingUids, searchKeys, foundCount,
                   notFoundCount, existingSlots, freshHits, collided>>
    /\ UNCHANGED <<dbVars, op, lastAdd, addCount, prior, recVars,
                   exitStatus, cerr>>

\* runPerformanceTest returned: the closing line is printed; return 0.
MainReturn ==
    /\ pc = "bench_done"
    /\ exitStatus' = 0
    /\ pc' = "exited"
    /\ UNCHANGED <<N, M, i, uid, usedUids, existingUids, searchKeys, foundCount,
                   notFoundCount, existingSlots, freshHits, collided>>
    /\ UNCHANGED <<dbVars, callVars, recVars, cerr, done>>

InitMain ==
    /\ NewDatabase /\ callIdle /\ recIdle /\ mainIdle
    /\ pc = "main"
    /\ N \in 1..MaxN
    /\ M \in 0..MaxM
    /\ i = 0 /\ uid = <<>>
    /\ usedUids = [k \in {} |-> TRUE]
    /\ existingUids = <<>> /\ searchKeys = <<>>
    /\ foundCount = 0 /\ notFoundCount = 0
    /\ existingSlots = 0 /\ freshHits = 0
    /\ collided = FALSE

NextMain ==
    \/ DemoEnter
    \/ DemoAdd
    \/ DemoFindHit
    \/ DemoFindMiss
    \/ DemoReturn
    \/ BenchEnter
    \/ GenerateUnique
    \/ InsertGenerated
    \/ CollectExisting
    \/ BuildKey
    \/ Shuffle
    \/ SearchStep
    \/ Report
    \/ MainReturn

SpecMain == InitMain /\ [][NextMain]_vars

BenchmarkStarted ==
    pc \in {"bench_entry", "gen_do", "gen_insert", "collect", "build",
            "shuffle", "search", "report", "bench_done"}

\* C9: the demo completes before the benchmark starts; status 0 only after
\* both completed without error; an invalid-length error ends the run
\* with a diagnostic on the error stream and status 1, no later phase
\* running; no other exit status is reachable.
C9_ExitStatusZeroOrOne ==
    /\ BenchmarkStarted => "demo" \in done
    /\ exitStatus = 0 => (done = {"demo", "bench"} /\ cerr = <<>>)
    /\ cerr # <<>> => (exitStatus = 1 /\ pc = "exited")
    /\ exitStatus = 1 => cerr # <<>>
    /\ exitStatus \in {Running, 0, 1}
    /\ pc = "exited" => exitStatus \in {0, 1}

====
